---------------------------- MODULE Spec2Model ----------------------------
(***************************************************************************)
(* Model of the fuel-price bot of src/main.py: the station filter and      *)
(* top-3 ranking (filtrar_y_obtener_top_3), the time-based cache file      *)
(* (descargar_si_es_necesario, obtener_datos_gasolineras) and the /precio  *)
(* conversation (precio, recibir_ciudad, recibir_ubicacion, cancelar).     *)
(*                                                                         *)
(* Representation.  A Python str is a sequence of one-character strings;   *)
(* the accented letters and the combining accent are written with ASCII    *)
(* names ("o_acute" is U+00F3, "O_acute" is U+00D3, "comb_acute" is        *)
(* U+0301).  A JSON value of a station record is [t, s]: t = "str" with    *)
(* the characters s, t = "null" (JSON null, Python None) or t = "absent"   *)
(* (the key is not in the dict).  A Python float is [nan, v]: v counts     *)
(* thousandths (1.459 is 1459, 40.4 degrees is 40400), nan marks           *)
(* float("nan").  Distances are in metres.  The record keys "Rótulo" and   *)
(* "Dirección" are written "Rotulo" and "Direccion".                       *)
(***************************************************************************)
EXTENDS Integers, Sequences, FiniteSets, TLC

VARIABLES
    gasolineras,   \* the station list handed to filtrar_y_obtener_top_3
    fase,          \* "entrada" before the call, "salida" after it
    busqueda,      \* the call made: tipo_busqueda, the raw city text, the location
    salida,        \* what the call produced
    reloj,         \* time.time(), in seconds
    cache,         \* the file CACHE_FILE: existe, mtime, contenido
    conv,          \* the ConversationHandler state of the chat
    ultimo         \* trace of the last handler run (what it did and replied)

vars == <<gasolineras, fase, busqueda, salida, reloj, cache, conv, ultimo>>

---------------------------------------------------------------------------
(* Bounds of the model *)

MaxLen == 4          \* longest station list handed to the filter
MaxMalformados == 1  \* malformed records in one station list
MaxPeriodos == 2     \* the clock stops after this many cache lifetimes

---------------------------------------------------------------------------
(* Python strings *)

Str(chars) == [t |-> "str", s |-> chars]
Null == [t |-> "null", s |-> <<>>]
Absent == [t |-> "absent", s |-> <<>>]

\* unicodedata.normalize('NFD', c) of one character
NFD(c) ==
    CASE c = "o_acute" -> <<"o", "comb_acute">>
      [] c = "O_acute" -> <<"O", "comb_acute">>
      [] OTHER -> <<c>>

\* unicodedata.category(c) = 'Mn'
EsMn(c) == c = "comb_acute"

\* str.lower() of one character
Lower(c) ==
    CASE c = "L" -> "l"
      [] c = "E" -> "e"
      [] c = "O" -> "o"
      [] c = "N" -> "n"
      [] c = "A" -> "a"
      [] c = "O_acute" -> "o_acute"
      [] OTHER -> c

RECURSIVE Concat(_)
Concat(ss) == IF ss = <<>> THEN <<>> ELSE Head(ss) \o Concat(Tail(ss))

\* normalizar without the final .lower()
normalizarSinLower(texto) ==
    SelectSeq(Concat([i \in 1..Len(texto) |-> NFD(texto[i])]), LAMBDA c : ~EsMn(c))

\* normalizar(texto): NFD, drop the characters of category Mn, lower-case
normalizar(texto) ==
    LET nfd == Concat([i \in 1..Len(texto) |-> NFD(texto[i])])
        sinMn == SelectSeq(nfd, LAMBDA c : ~EsMn(c))
    IN  [i \in 1..Len(sinMn) |-> Lower(sinMn[i])]

\* Python's  a in b  on two str
Contiene(b, a) ==
    \E i \in 0..(Len(b) - Len(a)) : SubSeq(b, i + 1, i + Len(a)) = a

---------------------------------------------------------------------------
(* Python floats *)

Num(v) == [nan |-> FALSE, v |-> v]
NaN == [nan |-> TRUE, v |-> 0]

FLt(a, b) == ~a.nan /\ ~b.nan /\ a.v < b.v      \* a < b
FLe(a, b) == ~a.nan /\ ~b.nan /\ a.v <= b.v     \* a <= b
FEq(a, b) == ~a.nan /\ ~b.nan /\ a.v = b.v      \* a == b

Digitos == {"0", "1", "2", "3", "4", "5", "6", "7", "8", "9"}

DigVal(c) ==
    CASE c = "0" -> 0 [] c = "1" -> 1 [] c = "2" -> 2 [] c = "3" -> 3
      [] c = "4" -> 4 [] c = "5" -> 5 [] c = "6" -> 6 [] c = "7" -> 7
      [] c = "8" -> 8 [] c = "9" -> 9

RECURSIVE Entero(_)
Entero(ds) ==
    IF ds = <<>> THEN 0
    ELSE Entero(SubSeq(ds, 1, Len(ds) - 1)) * 10 + DigVal(ds[Len(ds)])

\* str.replace(",", ".")
ReplaceComa(s) == [i \in 1..Len(s) |-> IF s[i] = "," THEN "." ELSE s[i]]

\* float(s) for the texts of the model: an optional sign, digits with at
\* most one point and at least one digit, or "nan"; anything else raises
\* ValueError.  The value is kept to three decimals.
SinSigno(s) == IF Len(s) > 0 /\ s[1] \in {"-", "+"} THEN Tail(s) ELSE s

\* Where the first point of u is, Len(u) + 1 when it has none
PosPunto(u) ==
    IF \E i \in 1..Len(u) : u[i] = "."
    THEN CHOOSE i \in 1..Len(u) : u[i] = "." /\ \A j \in 1..(i - 1) : u[j] # "."
    ELSE Len(u) + 1

SonDigitos(ds) == \A i \in 1..Len(ds) : ds[i] \in Digitos

Magnitud(ent, dec) ==
    Entero(ent) * 1000 + Entero(SubSeq(dec \o <<"0", "0", "0">>, 1, 3))

ParseNum(neg, u, ent, dec) ==
    IF u = <<"n", "a", "n">> THEN [exc |-> "none", f |-> NaN]
    ELSE IF Len(ent) + Len(dec) >= 1 /\ SonDigitos(ent) /\ SonDigitos(dec)
         THEN [exc |-> "none",
               f |-> Num(IF neg THEN 0 - Magnitud(ent, dec) ELSE Magnitud(ent, dec))]
    ELSE [exc |-> "ValueError", f |-> NaN]

ParseSinSigno(neg, u, p) ==
    ParseNum(neg, u, SubSeq(u, 1, p - 1), SubSeq(u, p + 1, Len(u)))

ParseFloat(s) ==
    ParseSinSigno(Len(s) > 0 /\ s[1] = "-", SinSigno(s), PosPunto(SinSigno(s)))

\* g.get(clave, defecto)
Get(g, clave, defecto) == IF g[clave].t = "absent" THEN defecto ELSE g[clave]

\* float(x.replace(",", ".")): None has no .replace
ConvertirValor(x) ==
    IF x.t = "null" THEN [exc |-> "AttributeError", f |-> NaN]
    ELSE ParseFloat(ReplaceComa(x.s))

\* float(g.get(clave, "0").replace(",", "."))
Convertir(g, clave) == ConvertirValor(Get(g, clave, Str(<<"0">>)))

---------------------------------------------------------------------------
(* haversine *)

Abs(x) == IF x < 0 THEN 0 - x ELSE x

\* R * c of the source's formula, in metres (rounded down), tabulated on the
\* grid of coordinates the model uses: <<lat1, lat2, |lon2 - lon1|, metres>>.
\* On this grid the formula depends on the longitudes through their
\* difference only.
HaversineTabla ==
    { <<40400, 40400, 0, 0>>,     <<40400, 40400, 100, 8467>>,  <<40400, 40400, 200, 16935>>,
      <<40400, 40500, 0, 11119>>, <<40400, 40500, 100, 13972>>, <<40400, 40500, 200, 20249>>,
      <<40400, 40600, 0, 22238>>, <<40400, 40600, 100, 23792>>, <<40400, 40600, 200, 27938>>,
      <<40500, 40400, 0, 11119>>, <<40500, 40400, 100, 13972>>, <<40500, 40400, 200, 20249>>,
      <<40500, 40500, 0, 0>>,     <<40500, 40500, 100, 8455>>,  <<40500, 40500, 200, 16910>>,
      <<40500, 40600, 0, 11119>>, <<40500, 40600, 100, 13965>>, <<40500, 40600, 200, 20228>>,
      <<40600, 40400, 0, 22238>>, <<40600, 40400, 100, 23792>>, <<40600, 40400, 200, 27938>>,
      <<40600, 40500, 0, 11119>>, <<40600, 40500, 100, 13965>>, <<40600, 40500, 200, 20228>>,
      <<40600, 40600, 0, 0>>,     <<40600, 40600, 100, 8442>>,  <<40600, 40600, 200, 16885>> }

haversine(lat1, lon1, lat2, lon2) ==
    (CHOOSE r \in HaversineTabla :
        r[1] = lat1 /\ r[2] = lat2 /\ r[3] = Abs(lon2 - lon1))[4]


---------------------------------------------------------------------------
(* Station records *)

Claves == {"IDEESS", "Rotulo", "Direccion", "Municipio", "Precio Gasoleo A",
           "Precio Gasolina 95 E5", "Latitud", "Longitud (WGS84)"}

Est(id, rot, mun, d, g, lat, lon) ==
    ("IDEESS" :> Str(<<id>>)) @@ ("Rotulo" :> rot) @@ ("Direccion" :> Str(<<"D">>))
    @@ ("Municipio" :> mun) @@ ("Precio Gasoleo A" :> d)
    @@ ("Precio Gasolina 95 E5" :> g) @@ ("Latitud" :> lat)
    @@ ("Longitud (WGS84)" :> lon)

Leon == Str(<<"L", "e", "o_acute", "n">>)
LEON == Str(<<"L", "E", "O", "N">>)
Lena == Str(<<"L", "e", "n", "a">>)
Rot == Str(<<"R">>)

P110 == Str(<<"1", ",", "1", "0">>)
P120 == Str(<<"1", ",", "2", "0">>)
P130 == Str(<<"1", ",", "3", "0">>)
P140 == Str(<<"1", ",", "4", "0">>)
P150 == Str(<<"1", ",", "5", "0">>)
P160 == Str(<<"1", ",", "6", "0">>)
P170 == Str(<<"1", ",", "7", "0">>)
P180 == Str(<<"1", ",", "8", "0">>)

Lat404 == Str(<<"4", "0", ",", "4">>)
Lat405 == Str(<<"4", "0", ",", "5">>)
Lon37 == Str(<<"-", "3", ",", "7">>)
Lon36 == Str(<<"-", "3", ",", "6">>)
Lon35 == Str(<<"-", "3", ",", "5">>)

\* Well-formed stations
V1 == Est("V1", Rot, Leon, P140, P160, Lat404, Lon37)
V2 == Est("V2", Rot, Leon, P150, P150, Lat405, Lon37)
V3 == Est("V3", Rot, LEON, P140, P170, Lat404, Lon35)
V4 == Est("V4", Rot, Leon, P130, P180, Lat405, Lon35)
V5 == Est("V5", Rot, Lena, P120, P150, Lat405, Lon36)
Validas == {V1, V2, V3, V4, V5}

\* Malformed stations: a price that is no number, a missing price, the
\* coordinates (0, 0), a latitude out of range, the price text "nan", a JSON
\* null price, a JSON null Municipio
Ma == Est("Ma", Rot, Leon, Str(<<"a", "b", "c">>), P110, Lat404, Lon37)
Mb == Est("Mb", Rot, Leon, P110, Absent, Lat404, Lon37)
Mc == Est("Mc", Rot, Leon, P110, P110, Str(<<"0">>), Absent)
Md == Est("Md", Rot, Leon, P110, P110, Str(<<"9", "1", ",", "0">>), Lon37)
Me == Est("Me", Rot, Leon, Str(<<"n", "a", "n">>), P110, Lat404, Lon37)
Mf == Est("Mf", Rot, Leon, Null, P110, Lat404, Lon37)
Mg == Est("Mg", Rot, Null, P110, P110, Lat404, Lon37)
Malformadas == {Ma, Mb, Mc, Md, Me, Mf, Mg}

Universo == Validas \cup Malformadas

---------------------------------------------------------------------------
(* filtrar_y_obtener_top_3 *)

UMBRAL_KM == 20

SinDistancia == [set |-> FALSE, m |-> 0]

\* What one turn of the loop over the stations ends in: "skip" (continue),
\* "append" (filtradas.append(g), item is g with the keys the loop adds) or
\* "raise" (an exception the except clause does not catch leaves the function)
Paso(kind, exc, g, diesel, gasolina, distancia) ==
    [kind |-> kind, exc |-> exc,
     item |-> [g |-> g, diesel |-> diesel, gasolina |-> gasolina,
               distancia |-> distancia]]

\* The first exception of the four conversions, in the order they are made
PrimeraExc(cd, cg, clat, clon) ==
    IF cd.exc # "none" THEN cd.exc
    ELSE IF cg.exc # "none" THEN cg.exc
    ELSE IF clat.exc # "none" THEN clat.exc
    ELSE clon.exc

\* The body of the try block once the four values are converted
Decidir(g, diesel, gasolina, g_lat, g_lon, criterio_busqueda, tipo_busqueda, umbral_distancia) ==
    IF FLe(diesel, Num(0)) \/ FLe(gasolina, Num(0))
    THEN Paso("skip", "none", g, diesel, gasolina, SinDistancia)
    ELSE IF \/ (FEq(g_lat, Num(0)) /\ FEq(g_lon, Num(0)))
            \/ ~(/\ FLe(Num(-90000), g_lat) /\ FLe(g_lat, Num(90000))
                 /\ FLe(Num(-180000), g_lon) /\ FLe(g_lon, Num(180000)))
         THEN Paso("skip", "none", g, diesel, gasolina, SinDistancia)
    ELSE IF tipo_busqueda = "ciudad"
         THEN IF Get(g, "Municipio", Str(<<>>)).t = "null"
              THEN Paso("raise", "TypeError", g, diesel, gasolina, SinDistancia)
              ELSE IF Contiene(normalizar(Get(g, "Municipio", Str(<<>>)).s),
                               criterio_busqueda)
                   THEN Paso("append", "none", g, diesel, gasolina, SinDistancia)
                   ELSE Paso("skip", "none", g, diesel, gasolina, SinDistancia)
    ELSE IF tipo_busqueda = "ubicacion"
         THEN IF haversine(criterio_busqueda[1], criterio_busqueda[2],
                           g_lat.v, g_lon.v) <= umbral_distancia * 1000
              THEN Paso("append", "none", g, diesel, gasolina,
                        [set |-> TRUE,
                         m |-> haversine(criterio_busqueda[1], criterio_busqueda[2],
                                         g_lat.v, g_lon.v)])
              ELSE Paso("skip", "none", g, diesel, gasolina, SinDistancia)
    ELSE Paso("skip", "none", g, diesel, gasolina, SinDistancia)

Intentar(g, cd, cg, clat, clon, exc, criterio_busqueda, tipo_busqueda, umbral_distancia) ==
    IF exc = "AttributeError"
    THEN Paso("raise", exc, g, cd.f, cg.f, SinDistancia)
    ELSE IF exc = "ValueError"
    THEN Paso("skip", "none", g, cd.f, cg.f, SinDistancia)
    ELSE Decidir(g, cd.f, cg.f, clat.f, clon.f, criterio_busqueda, tipo_busqueda,
                 umbral_distancia)

Convertidos(g, cd, cg, clat, clon, criterio_busqueda, tipo_busqueda, umbral_distancia) ==
    Intentar(g, cd, cg, clat, clon, PrimeraExc(cd, cg, clat, clon),
             criterio_busqueda, tipo_busqueda, umbral_distancia)

\* One turn of the loop
Procesar(g, criterio_busqueda, tipo_busqueda, umbral_distancia) ==
    Convertidos(g, Convertir(g, "Precio Gasoleo A"),
                Convertir(g, "Precio Gasolina 95 E5"),
                Convertir(g, "Latitud"), Convertir(g, "Longitud (WGS84)"),
                criterio_busqueda, tipo_busqueda, umbral_distancia)

\* The for loop: the stations appended so far, or the exception that ended it
RECURSIVE Bucle(_, _, _, _, _)
Seguir(resto, filtradas, r, criterio, tipo, umbral) ==
    IF r.kind = "raise" THEN [exc |-> r.exc, filtradas |-> filtradas]
    ELSE Bucle(resto,
               IF r.kind = "append" THEN Append(filtradas, r.item) ELSE filtradas,
               criterio, tipo, umbral)

Bucle(gs, filtradas, criterio, tipo, umbral) ==
    IF gs = <<>> THEN [exc |-> "none", filtradas |-> filtradas]
    ELSE Seguir(Tail(gs), filtradas, Procesar(Head(gs), criterio, tipo, umbral),
                criterio, tipo, umbral)

\* The sort key  (x[campo], x.get("distancia", 0))
Clave(x, campo) == <<x[campo], IF x.distancia.set THEN x.distancia.m ELSE 0>>

\* Python's  <  on two such tuples: the first items that are not == decide
ClaveLt(a, b) == IF FEq(a[1], b[1]) THEN a[2] < b[2] ELSE FLt(a[1], b[1])

Lt(x, y, campo) == ClaveLt(Clave(x, campo), Clave(y, campo))

\* list.sort of a list shorter than 64: the first run (count_run), reversed
\* when descending, then binary insertion of the rest (binarysort)
RECURSIVE RunLen(_, _, _, _)
RunLen(s, n, desc, campo) ==
    IF n >= Len(s) THEN n
    ELSE IF Lt(s[n + 1], s[n], campo) = desc THEN RunLen(s, n + 1, desc, campo)
    ELSE n

Reverse(s) == [i \in 1..Len(s) |-> s[Len(s) + 1 - i]]

RECURSIVE BinPos(_, _, _, _, _)
BinPaso(s, pivot, l, r, p, campo) ==
    IF Lt(pivot, s[p + 1], campo) THEN BinPos(s, pivot, l, p, campo)
    ELSE BinPos(s, pivot, p + 1, r, campo)

BinPos(s, pivot, l, r, campo) ==
    IF l >= r THEN l ELSE BinPaso(s, pivot, l, r, l + ((r - l) \div 2), campo)

Insertar(s, pivot, l, start) ==
    SubSeq(s, 1, l) \o <<pivot>> \o SubSeq(s, l + 1, start)
        \o SubSeq(s, start + 2, Len(s))

RECURSIVE BinarySort(_, _, _)
BinarySort(s, start, campo) ==
    IF start >= Len(s) THEN s
    ELSE BinarySort(Insertar(s, s[start + 1],
                             BinPos(s, s[start + 1], 0, start, campo), start),
                    start + 1, campo)

PrimerRun(s, desc, n, campo) ==
    BinarySort(IF desc THEN Reverse(SubSeq(s, 1, n)) \o SubSeq(s, n + 1, Len(s))
               ELSE s,
               n, campo)

sorted(s, campo) ==
    IF Len(s) < 2 THEN s
    ELSE PrimerRun(s, Lt(s[2], s[1], campo),
                   RunLen(s, 2, Lt(s[2], s[1], campo), campo), campo)

\* s[:3]
Top3(s) == SubSeq(s, 1, IF Len(s) < 3 THEN Len(s) ELSE 3)

\* The two returns, and the exception that takes the place of a return
Devolver(b) ==
    IF b.exc # "none" \/ b.filtradas = <<>>
    THEN [exc |-> b.exc, error |-> TRUE, filtradas |-> b.filtradas,
          top_diesel |-> <<>>, top_gasolina |-> <<>>]
    ELSE [exc |-> "none", error |-> FALSE, filtradas |-> b.filtradas,
          top_diesel |-> Top3(sorted(b.filtradas, "diesel")),
          top_gasolina |-> Top3(sorted(b.filtradas, "gasolina"))]

\* The call: exc is the exception that left it ("none" when it returned),
\* error tells the (None, message) return from the (lists, None) return
filtrar_y_obtener_top_3(gs, criterio_busqueda, tipo_busqueda, umbral_distancia) ==
    Devolver(Bucle(gs, <<>>, criterio_busqueda, tipo_busqueda, umbral_distancia))

---------------------------------------------------------------------------
(* The two calls of the filter *)

SinBusqueda == [tipo |-> "ninguna", ciudad |-> <<>>, ubicacion |-> <<0, 0>>]

SinSalida == [exc |-> "none", error |-> TRUE, filtradas |-> <<>>,
              top_diesel |-> <<>>, top_gasolina |-> <<>>]

\* The call of recibir_ciudad: the city text normalized, the default radius
LlamadaCiudad(gs, ciudad) ==
    filtrar_y_obtener_top_3(gs, normalizar(ciudad), "ciudad", UMBRAL_KM)

\* The call of recibir_ubicacion with a radius of 25 km
LlamadaUbicacion25(gs, u) ==
    filtrar_y_obtener_top_3(gs, u, "ubicacion", 25)

\* The call of recibir_ubicacion: the user's coordinates, 20 km
LlamadaUbicacion(gs, u) ==
    filtrar_y_obtener_top_3(gs, u, "ubicacion", UMBRAL_KM)

---------------------------------------------------------------------------
(* The cache file and the price feed *)

CACHE_TIEMPO == 6 * 60 * 60

\* A station whose record has no "Rotulo" key
Mh == Est("Mh", Absent, Leon, P110, P110, Lat404, Lon37)

\* What the file holds: "lista" is a JSON document with the list datos under
\* 'ListaEESSPrecio', "sinclave" a JSON document without that key, "truncado"
\* a file that is no JSON document (empty or partly written)
Lista(datos) == [clase |-> "lista", datos |-> datos]
SinClave == [clase |-> "sinclave", datos |-> <<>>]
Truncado == [clase |-> "truncado", datos |-> <<>>]
Nada == [clase |-> "nada", datos |-> <<>>]

SinFichero == [existe |-> FALSE, mtime |-> 0, contenido |-> Nada]

\* The station lists the feed serves
Feeds == { <<V1, V2, V3, V4>>, <<V5>>, <<V1, Mf>>, <<V4, Mh>> }

\* What a request to URL_API can end in: a timeout, a connection error, an
\* HTTP error status, a 200 whose body is no JSON, a 200 with a JSON document
\* without the key, a 200 with a station list
Respuestas ==
    {[r |-> x, datos |-> <<>>] :
        x \in {"Timeout", "ConnectionError", "HTTPError", "nojson", "sinclave"}}
    \cup {[r |-> "ok", datos |-> d] : d \in Feeds}

\* descargar_si_es_necesario with >= in place of > in the age test
descargarDesdeSeisHoras(c, t, resp) ==
    IF ~c.existe \/ (t - c.mtime) >= CACHE_TIEMPO
    THEN CASE resp.r \in {"Timeout", "ConnectionError", "HTTPError"} ->
                [ret |-> FALSE, cache |-> c, peticion |-> TRUE]
           [] resp.r = "nojson" ->
                [ret |-> FALSE,
                 cache |-> [existe |-> TRUE, mtime |-> t, contenido |-> Truncado],
                 peticion |-> TRUE]
           [] resp.r = "sinclave" ->
                [ret |-> TRUE,
                 cache |-> [existe |-> TRUE, mtime |-> t, contenido |-> SinClave],
                 peticion |-> TRUE]
           [] resp.r = "ok" ->
                [ret |-> TRUE,
                 cache |-> [existe |-> TRUE, mtime |-> t,
                            contenido |-> Lista(resp.datos)],
                 peticion |-> TRUE]
    ELSE [ret |-> TRUE, cache |-> c, peticion |-> FALSE]

\* descargar_si_es_necesario() at time t with the file c, the request (if one
\* is made) ending in resp: the value returned, the file afterwards, and
\* whether requests.get was called.  open(CACHE_FILE, "w") runs before
\* r.json() is evaluated, so a body that is no JSON leaves an empty file.
descargar_si_es_necesario(c, t, resp) ==
    LET descargar == IF ~c.existe THEN TRUE
                     ELSE (t - c.mtime) > CACHE_TIEMPO
        escrito(x) == [existe |-> TRUE, mtime |-> t, contenido |-> x]
    IN  IF descargar
        THEN CASE resp.r \in {"Timeout", "ConnectionError", "HTTPError"} ->
                    [ret |-> FALSE, cache |-> c, peticion |-> TRUE]
               [] resp.r = "nojson" ->
                    [ret |-> FALSE, cache |-> escrito(Truncado), peticion |-> TRUE]
               [] resp.r = "sinclave" ->
                    [ret |-> TRUE, cache |-> escrito(SinClave), peticion |-> TRUE]
               [] resp.r = "ok" ->
                    [ret |-> TRUE, cache |-> escrito(Lista(resp.datos)), peticion |-> TRUE]
        ELSE [ret |-> TRUE, cache |-> c, peticion |-> FALSE]

\* The rest of obtener_datos_gasolineras with json.load(f).get(key, []):
\* a document without the key reads as an empty list
LeerClaveOpcional(d) ==
    IF ~d.ret \/ ~d.cache.existe
    THEN [ret |-> d.ret, cache |-> d.cache, peticion |-> d.peticion,
          esNone |-> TRUE, datos |-> <<>>, leyo |-> FALSE]
    ELSE IF d.cache.contenido.clase = "truncado"
    THEN [ret |-> d.ret, cache |-> d.cache, peticion |-> d.peticion,
          esNone |-> TRUE, datos |-> <<>>, leyo |-> TRUE]
    ELSE [ret |-> d.ret, cache |-> d.cache, peticion |-> d.peticion,
          esNone |-> FALSE, datos |-> d.cache.contenido.datos, leyo |-> TRUE]

\* The rest of obtener_datos_gasolineras without the early return: after a
\* failed download it reads whatever file there is
LeerTrasFallo(d) ==
    IF ~d.cache.existe
    THEN [ret |-> d.ret, cache |-> d.cache, peticion |-> d.peticion,
          esNone |-> TRUE, datos |-> <<>>, leyo |-> FALSE]
    ELSE IF d.cache.contenido.clase \in {"truncado", "sinclave"}
    THEN [ret |-> d.ret, cache |-> d.cache, peticion |-> d.peticion,
          esNone |-> TRUE, datos |-> <<>>, leyo |-> TRUE]
    ELSE [ret |-> d.ret, cache |-> d.cache, peticion |-> d.peticion,
          esNone |-> FALSE, datos |-> d.cache.contenido.datos, leyo |-> TRUE]

\* The rest of obtener_datos_gasolineras() after descargar_si_es_necesario()
\* returned d.ret: esNone tells the None return from the list datos; leyo
\* tells whether the file was opened for reading
Leer(d) ==
    IF ~d.ret
    THEN [ret |-> d.ret, cache |-> d.cache, peticion |-> d.peticion,
          esNone |-> TRUE, datos |-> <<>>, leyo |-> FALSE]
    ELSE IF ~d.cache.existe                                 \* FileNotFoundError
    THEN [ret |-> d.ret, cache |-> d.cache, peticion |-> d.peticion,
          esNone |-> TRUE, datos |-> <<>>, leyo |-> FALSE]
    ELSE IF d.cache.contenido.clase \in {"truncado", "sinclave"}
    THEN [ret |-> d.ret, cache |-> d.cache, peticion |-> d.peticion,
          esNone |-> TRUE, datos |-> <<>>, leyo |-> TRUE]   \* JSONDecodeError, KeyError
    ELSE [ret |-> d.ret, cache |-> d.cache, peticion |-> d.peticion,
          esNone |-> FALSE, datos |-> d.cache.contenido.datos, leyo |-> TRUE]

obtener_datos_gasolineras(c, t, resp) == Leer(descargar_si_es_necesario(c, t, resp))

---------------------------------------------------------------------------
(* The handlers of the /precio conversation *)

\* Building the reply from the two lists: g['Rótulo'] and g['Dirección']
\* raise KeyError on a record without them, and the except clause that
\* catches it reads g['Rótulo'] again
MensajeLanza(top_diesel, top_gasolina) ==
    \E i \in 1..Len(top_diesel \o top_gasolina) :
        LET g == (top_diesel \o top_gasolina)[i].g
        IN  g["Rotulo"].t = "absent" \/ g["Direccion"].t = "absent"

SinUltimo ==
    [op |-> "ninguna", t |-> 0, antes |-> SinFichero, convAntes |-> "END",
     resp |-> [r |-> "ninguna", datos |-> <<>>],
     peticion |-> FALSE, ret |-> TRUE, leyo |-> FALSE, esNone |-> FALSE,
     excepcion |-> "none", respuestas |-> <<>>, resultado |-> SinSalida]

\* What a handler run leaves: the trace, the state of the conversation (END
\* when the handler returned, unchanged when an exception left it) and the
\* replies sent before that
Terminar(u, x, reply) ==
    /\ ultimo' = [u EXCEPT !.excepcion = x,
                           !.respuestas = IF x = "none"
                                          THEN Append(u.respuestas, reply)
                                          ELSE u.respuestas]
    /\ conv' = IF x = "none" THEN "END" ELSE conv

Responder(u, o, res) ==
    IF o.esNone THEN Terminar(u, "none", "error_datos")
    ELSE IF res.exc # "none" THEN Terminar(u, res.exc, "")
    ELSE IF res.error THEN Terminar(u, "none", "sin_resultados")
    ELSE IF MensajeLanza(res.top_diesel, res.top_gasolina)
         THEN Terminar(u, "KeyError", "")
    ELSE Terminar(u, "none", "resultados")

Traza(op, previas, resp, o, res) ==
    [op |-> op, t |-> reloj, antes |-> cache, convAntes |-> conv, resp |-> resp,
     peticion |-> o.peticion, ret |-> o.ret, leyo |-> o.leyo, esNone |-> o.esNone,
     excepcion |-> "none", respuestas |-> previas, resultado |-> res]

\* The body shared by recibir_ciudad and recibir_ubicacion once the data are
\* loaded (o) and, when there are data, filtered (res): the file as the load
\* left it, and the reply
Atender(op, previas, resp, o, res) ==
    /\ cache' = o.cache
    /\ Responder(Traza(op, previas, resp, o, res), o, res)

\* resultado, error = filtrar_y_obtener_top_3(...) of the two handlers, not
\* reached when the data are None
ResultadoCiudad(o, ciudad) ==
    IF o.esNone THEN SinSalida ELSE LlamadaCiudad(o.datos, ciudad)

ResultadoUbicacion(o, u) ==
    IF o.esNone THEN SinSalida ELSE LlamadaUbicacion(o.datos, u)

\* /start
start ==
    /\ ultimo' = [SinUltimo EXCEPT !.op = "start", !.t = reloj, !.antes = cache,
                                   !.convAntes = conv,
                                   !.respuestas = <<"bienvenida">>]
    /\ UNCHANGED <<gasolineras, fase, busqueda, salida, reloj, cache, conv>>

\* /precio, the entry point of the conversation
precio ==
    /\ conv = "END"
    /\ conv' = "ESPERANDO_CIUDAD"
    /\ ultimo' = [SinUltimo EXCEPT !.op = "precio", !.t = reloj, !.antes = cache,
                                   !.convAntes = conv,
                                   !.respuestas = <<"pregunta">>]
    /\ UNCHANGED <<gasolineras, fase, busqueda, salida, reloj, cache>>

\* A text that is no command, while the conversation waits for a city
recibir_ciudad(ciudad, resp) ==
    /\ conv = "ESPERANDO_CIUDAD"
    /\ Atender("recibir_ciudad", <<>>, resp,
               obtener_datos_gasolineras(cache, reloj, resp),
               ResultadoCiudad(obtener_datos_gasolineras(cache, reloj, resp), ciudad))
    /\ UNCHANGED <<gasolineras, fase, busqueda, salida, reloj>>

\* A location, while the conversation waits for a city
recibir_ubicacion(u, resp) ==
    /\ conv = "ESPERANDO_CIUDAD"
    /\ Atender("recibir_ubicacion", <<"buscando">>, resp,
               obtener_datos_gasolineras(cache, reloj, resp),
               ResultadoUbicacion(obtener_datos_gasolineras(cache, reloj, resp), u))
    /\ UNCHANGED <<gasolineras, fase, busqueda, salida, reloj>>

\* /cancelar, the fallback of the conversation
cancelar ==
    /\ conv = "ESPERANDO_CIUDAD"
    /\ conv' = "END"
    /\ ultimo' = [SinUltimo EXCEPT !.op = "cancelar", !.t = reloj, !.antes = cache,
                                   !.convAntes = conv,
                                   !.respuestas = <<"cancelada">>]
    /\ UNCHANGED <<gasolineras, fase, busqueda, salida, reloj, cache>>

\* Time passes between two updates
Pasos == {CACHE_TIEMPO, CACHE_TIEMPO + 1}

Tic(d) ==
    /\ reloj + d <= MaxPeriodos * (CACHE_TIEMPO + 1)
    /\ reloj' = reloj + d
    /\ UNCHANGED <<gasolineras, fase, busqueda, salida, cache, conv, ultimo>>

BotInicial ==
    /\ reloj = 0
    /\ cache = SinFichero
    /\ conv = "END"
    /\ ultimo = SinUltimo

---------------------------------------------------------------------------
(* The filter on its own: every bounded station list, then one search *)

Rango(s) == {s[i] : i \in 1..Len(s)}

\* The station lists, as lists of positions in the feed's catalogue: no
\* station twice, at most MaxMalformados malformed
Catalogo == <<V1, V2, V3, V4, V5, Ma, Mb, Mc, Md, Me, Mf, Mg>>

NumMalformadas(l) == Cardinality({i \in 1..Len(l) : Catalogo[l[i]] \in Malformadas})

RECURSIVE ListasDe(_)
ListasDe(n) ==
    IF n = 0 THEN {<<>>}
    ELSE {Append(x[1], x[2]) :
            x \in {y \in ListasDe(n - 1) \X (1..Len(Catalogo)) :
                     /\ y[2] \notin Rango(y[1])
                     /\ NumMalformadas(Append(y[1], y[2])) <= MaxMalformados}}

Listas == UNION {ListasDe(n) : n \in 0..MaxLen}

Materializar(l) == [i \in 1..Len(l) |-> Catalogo[l[i]]]

\* The texts a user types as a city
Ciudades ==
    { <<"l", "e", "o", "n">>,
      <<"L", "E", "O_acute", "N">>,
      <<"L", "e", "o", "comb_acute", "n">>,
      <<"l", "e">>,
      <<"L", "E", "N", "A">> }

\* The locations a user sends: (latitude, longitude) in thousandths of a degree
Ubicaciones == {<<40400, -3700>>, <<40600, -3500>>}

InitFiltro ==
    /\ \E l \in Listas : gasolineras = Materializar(l)
    /\ fase = "entrada"
    /\ busqueda = SinBusqueda
    /\ salida = SinSalida
    /\ BotInicial

BuscarCiudad(ciudad) ==
    /\ fase = "entrada"
    /\ fase' = "salida"
    /\ busqueda' = [SinBusqueda EXCEPT !.tipo = "ciudad", !.ciudad = ciudad]
    /\ salida' = LlamadaCiudad(gasolineras, ciudad)
    /\ UNCHANGED <<gasolineras, reloj, cache, conv, ultimo>>

BuscarUbicacion(u) ==
    /\ fase = "entrada"
    /\ fase' = "salida"
    /\ busqueda' = [SinBusqueda EXCEPT !.tipo = "ubicacion", !.ubicacion = u]
    /\ salida' = LlamadaUbicacion(gasolineras, u)
    /\ UNCHANGED <<gasolineras, reloj, cache, conv, ultimo>>

NextFiltro ==
    \/ \E ciudad \in Ciudades : BuscarCiudad(ciudad)
    \/ \E u \in Ubicaciones : BuscarUbicacion(u)

SpecFiltro == InitFiltro /\ [][NextFiltro]_vars

---------------------------------------------------------------------------
(* The bot: the cache file, the feed and the conversation of one chat *)

CiudadesBot == {<<"l", "e", "o", "n">>, <<"L", "E", "N", "A">>}

Init ==
    /\ gasolineras = <<>>
    /\ fase = "entrada"
    /\ busqueda = SinBusqueda
    /\ salida = SinSalida
    /\ BotInicial

Next ==
    \/ start
    \/ precio
    \/ \E ciudad \in CiudadesBot, resp \in Respuestas : recibir_ciudad(ciudad, resp)
    \/ \E u \in Ubicaciones, resp \in Respuestas : recibir_ubicacion(u, resp)
    \/ cancelar
    \/ \E d \in Pasos : Tic(d)

Spec == Init /\ [][Next]_vars

---------------------------------------------------------------------------
(* Vocabulary of the properties *)

Id(g) == g["IDEESS"].s[1]

\* The stations of a list of items
Estaciones(items) == {items[i].g : i \in 1..Len(items)}

\* The two fuels: the key the loop stores the price under, and the list
Combustibles == {"diesel", "gasolina"}
TopDe(r, campo) == IF campo = "diesel" THEN r.top_diesel ELSE r.top_gasolina

CamposNumericos == {"Precio Gasoleo A", "Precio Gasolina 95 E5", "Latitud",
                    "Longitud (WGS84)"}

\* The field is a text that reads as a decimal number
EsNumero(x) ==
    /\ x.t = "str"
    /\ ParseFloat(ReplaceComa(x.s)).exc = "none"
    /\ ~ParseFloat(ReplaceComa(x.s)).f.nan

\* A record with a price or coordinate field missing or not a number
Malformado(g) == \E k \in CamposNumericos : ~EsNumero(g[k])

Valor(g, k) == ParseFloat(ReplaceComa(g[k].s)).f.v

\* Prices above 0, coordinates other than (0, 0) and within range
PreciosYCoordenadasValidos(g) ==
    /\ ~Malformado(g)
    /\ Valor(g, "Precio Gasoleo A") > 0
    /\ Valor(g, "Precio Gasolina 95 E5") > 0
    /\ ~(Valor(g, "Latitud") = 0 /\ Valor(g, "Longitud (WGS84)") = 0)
    /\ Valor(g, "Latitud") \in -90000..90000
    /\ Valor(g, "Longitud (WGS84)") \in -180000..180000

\* The stations of the model with valid prices and coordinates, and where
\* the stations with numeric coordinates are (thousandths of a degree)
EstacionesValidas == {g \in Universo : PreciosYCoordenadasValidos(g)}

Coordenadas ==
    [g \in {x \in Universo : EsNumero(x["Latitud"]) /\ EsNumero(x["Longitud (WGS84)"])}
        |-> <<Valor(g, "Latitud"), Valor(g, "Longitud (WGS84)")>>]

\* A text with its accents removed and lower-cased, letter by letter
Letra(c) ==
    CASE c \in {"l", "L"} -> "l"
      [] c \in {"e", "E"} -> "e"
      [] c \in {"o", "O", "o_acute", "O_acute"} -> "o"
      [] c \in {"n", "N"} -> "n"
      [] c \in {"a", "A"} -> "a"
      [] OTHER -> c

SinAcentos(s) == SelectSeq(s, LAMBDA c : c # "comb_acute")

Plegar(s) == [i \in 1..Len(SinAcentos(s)) |-> Letra(SinAcentos(s)[i])]

Devuelto == fase = "salida" /\ salida.exc = "none" /\ ~salida.error

---------------------------------------------------------------------------
(* Properties of the filter (SpecFiltro) *)

\* C1: when the call returns lists, each fuel's list holds min(3, n) of the n
\* stations that passed the filter, no listed station is cheaper than one
\* listed before it, and no unlisted station that passed is cheaper than a
\* listed one.
C1_Top3 ==
    Devuelto =>
        \A campo \in Combustibles :
            /\ Len(TopDe(salida, campo)) =
                 (IF Len(salida.filtradas) < 3 THEN Len(salida.filtradas) ELSE 3)
            /\ Cardinality(Estaciones(TopDe(salida, campo)))
                 = Len(TopDe(salida, campo))
            /\ \A i \in 1..Len(TopDe(salida, campo)) :
                 \E j \in 1..Len(salida.filtradas) :
                    salida.filtradas[j] = TopDe(salida, campo)[i]
            /\ \A i, j \in 1..Len(TopDe(salida, campo)) :
                 i < j => ~FLt(TopDe(salida, campo)[j][campo],
                               TopDe(salida, campo)[i][campo])
            /\ \A j \in 1..Len(salida.filtradas) :
                 \A i \in 1..Len(TopDe(salida, campo)) :
                    salida.filtradas[j].g \notin Estaciones(TopDe(salida, campo))
                      => ~FLt(salida.filtradas[j][campo],
                              TopDe(salida, campo)[i][campo])

\* C2: in a city search that returns, a station with valid prices and
\* coordinates passes the filter exactly when the query, accents removed and
\* lower-cased, is a substring of its Municipio treated alike; and every
\* query that differs from the one made only in case or accents has the
\* same outcome.
C2_Ciudad ==
    (fase = "salida" /\ busqueda.tipo = "ciudad") =>
        /\ salida.exc = "none" =>
             \A i \in 1..Len(gasolineras) :
                (/\ gasolineras[i] \in EstacionesValidas
                 /\ gasolineras[i]["Municipio"].t = "str")
                => (gasolineras[i] \in Estaciones(salida.filtradas)
                      <=> Contiene(Plegar(gasolineras[i]["Municipio"].s),
                                   Plegar(busqueda.ciudad)))
        /\ \A q \in Ciudades \ {busqueda.ciudad} :
             Plegar(q) = Plegar(busqueda.ciudad)
                => LlamadaCiudad(gasolineras, q) = salida

\* C2 witness: the query <L, e, o, U+0301, n> finds the station of "LEON" and
\* leaves out the valid station of "Lena"
C2_Testigo ==
    /\ Devuelto
    /\ busqueda.tipo = "ciudad"
    /\ busqueda.ciudad = <<"L", "e", "o", "comb_acute", "n">>
    /\ V3 \in Estaciones(salida.filtradas)
    /\ V5 \in Rango(gasolineras)
    /\ V5 \notin Estaciones(salida.filtradas)

\* The distance in metres from the location sent to a station on the grid
DistanciaA(u, g) == haversine(u[1], u[2], Coordenadas[g][1], Coordenadas[g][2])

\* C3: in a location search that returns, a station with valid prices and
\* coordinates passes the filter exactly when it is at most 20 km from the
\* user, and every listed station carries a distancia that is its distance
\* and is at most 20 km.
C3_Ubicacion ==
    (fase = "salida" /\ busqueda.tipo = "ubicacion" /\ salida.exc = "none") =>
        /\ \A i \in 1..Len(gasolineras) :
             gasolineras[i] \in EstacionesValidas
                => (gasolineras[i] \in Estaciones(salida.filtradas)
                      <=> DistanciaA(busqueda.ubicacion, gasolineras[i]) <= 20 * 1000)
        /\ \A campo \in Combustibles :
             \A i \in 1..Len(TopDe(salida, campo)) :
                /\ TopDe(salida, campo)[i].distancia.set
                /\ TopDe(salida, campo)[i].distancia.m <= 20 * 1000
                /\ TopDe(salida, campo)[i].distancia.m
                     = DistanciaA(busqueda.ubicacion, TopDe(salida, campo)[i].g)

\* C3 witness: from (40.4, -3.7) the station V1 is listed and the valid
\* station V4, 20.2 km away, is not
C3_Testigo ==
    /\ Devuelto
    /\ busqueda.tipo = "ubicacion"
    /\ busqueda.ubicacion = <<40400, -3700>>
    /\ V1 \in Estaciones(salida.top_diesel)
    /\ V4 \in Rango(gasolineras)
    /\ V4 \notin Estaciones(salida.filtradas)

\* The call just made, on another station list
MismaLlamada(gs) ==
    IF busqueda.tipo = "ciudad" THEN LlamadaCiudad(gs, busqueda.ciudad)
    ELSE LlamadaUbicacion(gs, busqueda.ubicacion)

\* C4: on a list whose records all have a text Municipio, the call does not
\* raise and gives what it gives on the list without its malformed records
\* (a price or coordinate field missing or not a number).
C4_SaltaMalformados ==
    (/\ fase = "salida"
     /\ \A i \in 1..Len(gasolineras) : gasolineras[i]["Municipio"].t = "str")
    => /\ salida.exc = "none"
       /\ salida = MismaLlamada(SelectSeq(gasolineras, LAMBDA g : ~Malformado(g)))

\* C10: every station of either list has both prices above 0 and coordinates
\* other than (0, 0) and within range.
C10_ListadasValidas ==
    Devuelto =>
        \A campo \in Combustibles :
            \A i \in 1..Len(TopDe(salida, campo)) :
                /\ FLt(Num(0), TopDe(salida, campo)[i].diesel)
                /\ FLt(Num(0), TopDe(salida, campo)[i].gasolina)
                /\ PreciosYCoordenadasValidos(TopDe(salida, campo)[i].g)

---------------------------------------------------------------------------
(* Properties of the cache and the conversation (Spec) *)

Atendido == ultimo.op \in {"recibir_ciudad", "recibir_ubicacion"}

\* The file as the last handler found it was missing or older than 6 hours
Caducado == ~ultimo.antes.existe \/ (ultimo.t - ultimo.antes.mtime) > 6 * 60 * 60

Fallida == ultimo.resp.r \in {"Timeout", "ConnectionError", "HTTPError", "nojson"}

\* C5: a request to the feed is made exactly when the file is missing or
\* was modified more than 6 hours ago; otherwise no request is made, the
\* file is left as it was and descargar_si_es_necesario returns True.
C5_Descarga ==
    Atendido =>
        /\ ultimo.peticion <=> Caducado
        /\ ~Caducado => (~ultimo.peticion /\ cache = ultimo.antes /\ ultimo.ret)

\* C5 witness: a file exactly 6 hours old is used without a request
C5_Testigo ==
    /\ Atendido
    /\ ultimo.antes.existe
    /\ ultimo.t - ultimo.antes.mtime = 6 * 60 * 60
    /\ ~ultimo.peticion
    /\ ultimo.ret

\* C6: when the download fails, or the file is missing, is no JSON or lacks
\* the key, the data are None, no exception leaves the handler, its last
\* reply is the could-not-load message, no station list is sent and the
\* conversation has ended.
C6_SinDatos ==
    (/\ Atendido
     /\ \/ (ultimo.peticion /\ Fallida)
        \/ ~cache.existe
        \/ cache.contenido.clase \in {"truncado", "sinclave"})
    => /\ ultimo.esNone
       /\ ultimo.excepcion = "none"
       /\ ultimo.respuestas # <<>>
       /\ ultimo.respuestas[Len(ultimo.respuestas)] = "error_datos"
       /\ \A i \in 1..Len(ultimo.respuestas) : ultimo.respuestas[i] # "resultados"
       /\ conv = "END"

\* C6 witness: a location is sent, the file holds a JSON document without
\* the key, and the handler answers that it could not load the data
C6_Testigo ==
    /\ ultimo.op = "recibir_ubicacion"
    /\ cache.existe
    /\ cache.contenido.clase = "sinclave"
    /\ ultimo.respuestas = <<"buscando", "error_datos">>
    /\ conv = "END"

\* C7: a file that exists and was modified at most 6 hours ago holds the
\* complete document of a successful download.
C7_CacheFrescaCompleta ==
    (cache.existe /\ (reloj - cache.mtime) <= 6 * 60 * 60)
        => cache.contenido.clase \in {"lista", "sinclave"}

C9_UnMensaje ==
    ultimo.op \in {"recibir_ciudad", "recibir_ubicacion", "cancelar"}
        => conv = "END"

=============================================================================
